---- MODULE Spec2Model ----
(***************************************************************************)
(* plistutil (Sources/libplist/tools/plistutil.c): one run of main().      *)
(*                                                                         *)
(* The property-list library (plist_is_binary, plist_from_*, plist_to_*,   *)
(* plist_free) is an external collaborator: each call is modelled by the   *)
(* set of results its signature allows (a result code, and what it leaves  *)
(* in its out-parameter).  The operating system (malloc, realloc, fopen,   *)
(* fstat, fread, read) is modelled the same way.                           *)
(*                                                                         *)
(* C indices are kept: argv[i] of the source is Arg(a, i) here, byte i of  *)
(* the input buffer is plist_entire[i + 1].                                *)
(***************************************************************************)
EXTENDS Integers, Sequences, FiniteSets, TLC

(***************************************************************************)
(* Bounds of the model.                                                    *)
(***************************************************************************)
\* most command-line arguments after argv[0]
MaxArgs == 3
\* longest standard input of the small streams
MaxStdinLen == 8
\* largest input file
MaxFileSize == 8
\* largest serialized output
MaxOutSize == 1
\* the long standard input makes the buffer grow this many times
MaxGrowths == 2

(***************************************************************************)
(* Program constants.                                                      *)
(***************************************************************************)
\* int read_capacity = 4096;
InitialCapacity == 4096
\* read_capacity += 4096;
CapacityStep == 4096
\* if (read_size < 8), if (filestats.st_size < 8)
MinPlistSize == 8

NULL == "(null)"

\* plist_err_t: the codes main names, and PLIST_ERR_OTHER for any code main
\* does not name (it meets the default: branch of the switch)
PLIST_ERR_SUCCESS == "PLIST_ERR_SUCCESS"
PLIST_ERR_FORMAT == "PLIST_ERR_FORMAT"
PLIST_ERR_UNKNOWN == "PLIST_ERR_UNKNOWN"
PLIST_ERR_OTHER == "PLIST_ERR_OTHER"
PlistErr ==
    {PLIST_ERR_SUCCESS, PLIST_ERR_FORMAT, PLIST_ERR_UNKNOWN, PLIST_ERR_OTHER}

Min(a, b) == IF a < b THEN a ELSE b

(***************************************************************************)
(* Strings of the command line.                                            *)
(***************************************************************************)
\* strcmp(a, b) == 0
StrEq(a, b) == a = b

Take(s, n) == SubSeq(s, 1, Min(n, Len(s)))

\* strncmp(a, b, n) == 0
StrNEq(a, b, n) == Take(a, n) = Take(b, n)

Tokens ==
    {"-i", "--outfile", "-f", "-d", "-h", "-v", "-x",
     "binary", "xml", "json", "txt", "-", "a.plist"}

\* the arguments after argv[0]
RECURSIVE SeqsUpTo(_)
SeqsUpTo(n) ==
    IF n = 0 THEN {<<>>}
    ELSE LET S == SeqsUpTo(n - 1)
         IN  S \cup {Append(s, t) : s \in {x \in S : Len(x) = n - 1}, t \in Tokens}

Argvs == {<<"plistutil">> \o s : s \in SeqsUpTo(MaxArgs)}

Arg(a, i) == a[i + 1]

(***************************************************************************)
(* parse_arguments.  The options block is calloc'ed, so every field starts *)
(* as zero / NULL.  A few bytes at startup: its allocation is taken to     *)
(* succeed.                                                                *)
(***************************************************************************)
ZeroOptions == [in_file |-> NULL, out_file |-> NULL, debug |-> 0, out_fmt |-> 0]

\* a mutation of OutFmtOf: an unsupported name falls back to xml
OutFmtOf_unsupported_as_xml(s) ==
    IF StrNEq(s, "bin", 3) THEN 1
    ELSE IF StrNEq(s, "json", 4) THEN 3
    ELSE 2

\* the value of -f: 1 = bin, 2 = xml, 3 = json; 0 when none matches
\* ("Unsupported output format")
OutFmtOf(s) ==
    IF StrNEq(s, "bin", 3) THEN 1
    ELSE IF StrNEq(s, "xml", 3) THEN 2
    ELSE IF StrNEq(s, "json", 4) THEN 3
    ELSE 0

\* The for loop from index i on.  The result is what main sees:
\*   kind "options": the options block;   kind "null": free(options), NULL;
\*   kind "exit": exit(EXIT_SUCCESS) after printing the version.
RECURSIVE ParseLoop(_, _, _)
ParseLoop(a, i, o) ==
    LET argc == Len(a)
        Null == [kind |-> "null", options |-> ZeroOptions]
    IN  IF ~(i < argc) THEN [kind |-> "options", options |-> o]
        ELSE IF StrEq(Arg(a, i), "--infile") \/ StrEq(Arg(a, i), "-i") THEN
            IF i + 1 = argc THEN Null
            ELSE ParseLoop(a, i + 2, [o EXCEPT !.in_file = Arg(a, i + 1)])
        ELSE IF StrEq(Arg(a, i), "--outfile") \/ StrEq(Arg(a, i), "-o") THEN
            IF i + 1 = argc THEN Null
            ELSE ParseLoop(a, i + 2, [o EXCEPT !.out_file = Arg(a, i + 1)])
        ELSE IF StrEq(Arg(a, i), "--format") \/ StrEq(Arg(a, i), "-f") THEN
            IF i + 1 = argc THEN Null
            ELSE IF OutFmtOf(Arg(a, i + 1)) = 0 THEN Null
            ELSE ParseLoop(a, i + 2, [o EXCEPT !.out_fmt = OutFmtOf(Arg(a, i + 1))])
        ELSE IF StrEq(Arg(a, i), "--debug") \/ StrEq(Arg(a, i), "-d") THEN
            ParseLoop(a, i + 1, [o EXCEPT !.debug = 1])
        ELSE IF StrEq(Arg(a, i), "--help") \/ StrEq(Arg(a, i), "-h") THEN Null
        ELSE IF StrEq(Arg(a, i), "--version") \/ StrEq(Arg(a, i), "-v") THEN
            [kind |-> "exit", options |-> ZeroOptions]
        ELSE Null

parse_arguments(a) == ParseLoop(a, 1, ZeroOptions)

(***************************************************************************)
(* The state of one run.                                                   *)
(***************************************************************************)
VARIABLES
    pc,             \* where main is: "start", "acquire", "stdin_loop",
                    \* "stdin_end", "convert", "write", "translate", "done"
    argv,           \* the command line, argv[0] included
    options,        \* the options block
    ret,            \* main's return value, or the argument of exit()
    usage_printed,  \* print_usage was called
    version_printed,
    plist_entire,   \* the cells written in the input buffer (<<>> when there
                    \* is none), as runs: see Store
    entire_alloc,   \* the size the input buffer was last (re)allocated with
    read_size,
    read_capacity,
    stdin_pos,      \* how many bytes read() has delivered from standard input
    read_end,       \* how the read loop ended: "eof" (read returned 0),
                    \* "error" (read returned -1); "open" until then
    last_store,     \* the last store into plist_entire: its index, and the
                    \* allocated size at that moment
    in_io,          \* the input source was touched (read, fopen)
    st_size,        \* filestats.st_size once fstat has filled it, -1 before
    input_res,
    output_res,
    root_node,
    plist_out,
    size,
    calls,          \* the library operations invoked, in order
    sniffed,        \* what plist_is_binary answered: "not_called", "binary",
                    \* "not_binary"
    out_dest,       \* "none", "stdout", "file" (opened "wb": created or
                    \* truncated), "open_failed"
    out_bytes,      \* bytes written to the destination
    acq,            \* per resource: how often it was acquired ...
    rel,            \* ... and how often released
    reached         \* the components of main the run entered

envVars == <<argv>>
inVars ==
    <<plist_entire, entire_alloc, read_size, read_capacity, stdin_pos,
      read_end, last_store, in_io, st_size>>
convVars == <<input_res, output_res, root_node, plist_out, size, calls, sniffed>>
outVars == <<out_dest, out_bytes>>
resVars == <<acq, rel>>
vars ==
    <<pc, envVars, options, ret, usage_printed, version_printed, inVars,
      convVars, outVars, resVars, reached>>

Resources == {"plist_entire", "root_node", "plist_out"}

Acquire(r) == acq' = [acq EXCEPT ![r] = @ + 1]
Release(r) == rel' = [rel EXCEPT ![r] = @ + 1]

(***************************************************************************)
(* The input buffer.  What a cell holds is named, not valued: k >= 0 is    *)
(* byte k of the input (the k-th byte read() or fread() delivered), NUL is *)
(* the terminator, INDET a cell never written.  The cells are kept         *)
(* run-length encoded, so that a buffer of thousands of bytes is a short   *)
(* value: plist_entire is a sequence of runs, and a run [lo, hi] stands    *)
(* for hi - lo + 1 cells holding lo, lo + 1, ..., hi.  Adjacent runs are   *)
(* always merged when the second continues the first, so a sequence of     *)
(* cells has exactly one encoding.                                         *)
(***************************************************************************)
NUL == -1
INDET == -3

\* the encoding of the cells lo, lo + 1, ..., hi
Run(lo, hi) == IF lo > hi THEN <<>> ELSE <<[lo |-> lo, hi |-> hi]>>

RunLen(r) == r.hi - r.lo + 1

\* how many cells b encodes
RECURSIVE BufLen(_)
BufLen(b) == IF b = <<>> THEN 0 ELSE RunLen(Head(b)) + BufLen(Tail(b))

\* the cells of a followed by the cells of b
Join(a, b) ==
    IF a = <<>> THEN b
    ELSE IF b = <<>> THEN a
    ELSE IF a[Len(a)].hi + 1 = b[1].lo
    THEN SubSeq(a, 1, Len(a) - 1) \o <<[lo |-> a[Len(a)].lo, hi |-> b[1].hi]>> \o Tail(b)
    ELSE a \o b

\* the first n cells of b
RECURSIVE TakeCells(_, _)
TakeCells(b, n) ==
    IF n <= 0 \/ b = <<>> THEN <<>>
    ELSE IF RunLen(Head(b)) >= n THEN Run(Head(b).lo, Head(b).lo + n - 1)
    ELSE <<Head(b)>> \o TakeCells(Tail(b), n - RunLen(Head(b)))

\* the cells of b after the first n
RECURSIVE DropCells(_, _)
DropCells(b, n) ==
    IF b = <<>> THEN <<>>
    ELSE IF n <= 0 THEN b
    ELSE IF RunLen(Head(b)) > n THEN Run(Head(b).lo + n, Head(b).hi) \o Tail(b)
    ELSE DropCells(Tail(b), n - RunLen(Head(b)))

\* n cells never written
RECURSIVE Unwritten(_)
Unwritten(n) == IF n <= 0 THEN <<>> ELSE Run(INDET, INDET) \o Unwritten(n - 1)

\* buf[idx] = v
Store(buf, idx, v) ==
    LET b == buf \o Unwritten(idx - BufLen(buf))
    IN  Join(Join(TakeCells(b, idx), Run(v, v)), DropCells(b, idx + 1))

\* the locals of main as declared (lines 150-159), before parse_arguments
MainLocals ==
    /\ pc = "start"
    /\ options = ZeroOptions
    /\ ret = 0
    /\ usage_printed = FALSE
    /\ version_printed = FALSE
    /\ plist_entire = <<>>
    /\ entire_alloc = 0
    /\ read_size = 0
    /\ read_capacity = InitialCapacity
    /\ stdin_pos = 0
    /\ read_end = "open"
    /\ last_store = [idx |-> -1, alloc |-> 0]
    /\ in_io = FALSE
    /\ st_size = -1
    /\ input_res = PLIST_ERR_UNKNOWN
    /\ output_res = PLIST_ERR_UNKNOWN
    /\ root_node = NULL
    /\ plist_out = NULL
    /\ size = 0
    /\ calls = <<>>
    /\ sniffed = "not_called"
    /\ out_dest = "none"
    /\ out_bytes = 0
    /\ acq = [r \in Resources |-> 0]
    /\ rel = [r \in Resources |-> 0]
    /\ reached = {}

Init ==
    /\ argv \in Argvs
    /\ MainLocals

(***************************************************************************)
(* main, lines 161-167: parse_arguments; usage and return 0 on NULL.       *)
(***************************************************************************)
Main_ParseArguments ==
    /\ pc = "start"
    /\ LET r == parse_arguments(argv)
       IN  /\ IF r.kind = "options"
              THEN /\ options' = r.options
                   /\ pc' = "acquire"
                   /\ UNCHANGED <<ret, usage_printed, version_printed>>
              ELSE IF r.kind = "exit"
              THEN /\ version_printed' = TRUE
                   /\ ret' = 0
                   /\ pc' = "done"
                   /\ UNCHANGED <<options, usage_printed>>
              ELSE /\ usage_printed' = TRUE
                   /\ ret' = 0
                   /\ pc' = "done"
                   /\ UNCHANGED <<options, version_printed>>
    /\ UNCHANGED <<envVars, inVars, convVars, outVars, resVars, reached>>

FromStdin == options.in_file = NULL \/ StrEq(options.in_file, "-")

(***************************************************************************)
(* lines 169-180: the standard-input branch: allocate the buffer.          *)
(***************************************************************************)
Main_StdinAlloc ==
    /\ pc = "acquire"
    /\ FromStdin
    /\ \E ok \in BOOLEAN :
        IF ok
        THEN /\ plist_entire' = Store(<<>>, 0, NUL)
             /\ entire_alloc' = read_capacity
             /\ last_store' = [idx |-> 0, alloc |-> read_capacity]
             /\ Acquire("plist_entire")
             /\ pc' = "stdin_loop"
             /\ UNCHANGED <<ret, rel>>
        ELSE /\ ret' = 1
             /\ pc' = "done"
             /\ UNCHANGED <<plist_entire, entire_alloc, last_store, acq, rel>>
    /\ read_size' = 0
    /\ reached' = reached \cup {"acquirer"}
    /\ UNCHANGED <<envVars, options, usage_printed, version_printed,
                   read_capacity, stdin_pos, read_end, in_io, st_size, convVars,
                   outVars>>

\* a mutation of NeedsGrow: the buffer grows one byte too late
NeedsGrow_late(rs, cap) == rs > cap

\* if (read_size >= read_capacity), lines 183 and 198
NeedsGrow(rs, cap) == rs >= cap

(***************************************************************************)
(* lines 181-197: one turn of the read loop: read(STDIN_FILENO, &ch, 1)    *)
(* returns 1, 0 or -1.  The stream delivers at most maxlen bytes.          *)
(***************************************************************************)
Main_StdinRead(maxlen) ==
    /\ pc = "stdin_loop"
    /\ in_io' = TRUE
    /\ \E r \in {1, 0, -1} :
       /\ r = 1 => stdin_pos < maxlen
       /\ IF r > 0
          THEN \* read() stored the next byte of the stream in ch
               /\ stdin_pos' = stdin_pos + 1
               /\ UNCHANGED read_end
               /\ IF NeedsGrow(read_size, read_capacity)
                  THEN /\ read_capacity' = read_capacity + CapacityStep
                       /\ \E ok \in BOOLEAN :
                           IF ok
                           THEN /\ entire_alloc' = read_capacity'
                                /\ plist_entire' =
                                       Store(plist_entire, read_size, stdin_pos)
                                /\ last_store' = [idx |-> read_size, alloc |-> entire_alloc']
                                /\ read_size' = read_size + 1
                                /\ pc' = "stdin_loop"
                                /\ UNCHANGED <<ret, resVars>>
                           ELSE \* free(old); return 1
                                /\ Release("plist_entire")
                                /\ plist_entire' = <<>>
                                /\ entire_alloc' = 0
                                /\ ret' = 1
                                /\ pc' = "done"
                                /\ UNCHANGED <<last_store, read_size, acq>>
                  ELSE /\ plist_entire' = Store(plist_entire, read_size, stdin_pos)
                       /\ last_store' = [idx |-> read_size, alloc |-> entire_alloc]
                       /\ read_size' = read_size + 1
                       /\ pc' = "stdin_loop"
                       /\ UNCHANGED <<ret, resVars, read_capacity, entire_alloc>>
          ELSE \* end of file (0) or an error (-1): the loop ends
               /\ read_end' = IF r < 0 THEN "error" ELSE "eof"
               /\ pc' = "stdin_end"
               /\ UNCHANGED <<stdin_pos, plist_entire, entire_alloc, last_store,
                              read_size, read_capacity, ret, resVars>>
    /\ UNCHANGED <<envVars, options, usage_printed, version_printed, st_size,
                   convVars, outVars, reached>>

\* ferror(stdin), line 212.  The error indicator of the stdio stream is set
\* by stdio calls on it only; main reads descriptor 0 with read(2) and makes
\* no stdio call on stdin, so the indicator is still clear here.
ferror_stdin == FALSE

(***************************************************************************)
(* lines 198-226: after the loop: room for the terminator, the terminator, *)
(* the ferror check and the size check.                                    *)
(***************************************************************************)
Main_StdinFinish ==
    /\ pc = "stdin_end"
    /\ \E ok \in BOOLEAN :
        LET grow == NeedsGrow(read_size, read_capacity)
            alloc2 == IF grow THEN read_capacity + 1 ELSE entire_alloc
        IN  IF grow /\ ~ok
            THEN \* free(old); return 1
                 /\ Release("plist_entire")
                 /\ plist_entire' = <<>>
                 /\ entire_alloc' = 0
                 /\ ret' = 1
                 /\ pc' = "done"
                 /\ UNCHANGED <<last_store, acq>>
            ELSE /\ last_store' = [idx |-> read_size, alloc |-> alloc2]
                 /\ IF ferror_stdin \/ read_size < MinPlistSize
                    THEN \* free(plist_entire); return 1
                         /\ Release("plist_entire")
                         /\ plist_entire' = <<>>
                         /\ entire_alloc' = 0
                         /\ ret' = 1
                         /\ pc' = "done"
                         /\ UNCHANGED acq
                    ELSE /\ plist_entire' = Store(plist_entire, read_size, NUL)
                         /\ entire_alloc' = alloc2
                         /\ pc' = "convert"
                         /\ UNCHANGED <<ret, resVars>>
    /\ UNCHANGED <<envVars, options, usage_printed, version_printed, read_size,
                   read_capacity, stdin_pos, read_end, in_io, st_size, convVars,
                   outVars, reached>>

(***************************************************************************)
(* lines 227-251: the named-file branch.  fopen may fail; st_size is what  *)
(* fstat reports; fread returns how many bytes it read.                    *)
(***************************************************************************)
Main_ReadFile ==
    /\ pc = "acquire"
    /\ ~FromStdin
    /\ in_io' = TRUE
    /\ reached' = reached \cup {"acquirer"}
    /\ \E opened \in BOOLEAN, sz \in 0..MaxFileSize :
        IF ~opened
        THEN /\ ret' = 1
             /\ pc' = "done"
             /\ UNCHANGED <<plist_entire, entire_alloc, read_size, last_store,
                            st_size, resVars>>
        ELSE IF sz < MinPlistSize
        THEN /\ st_size' = sz
             /\ ret' = -1
             /\ pc' = "done"
             /\ UNCHANGED <<plist_entire, entire_alloc, read_size, last_store, resVars>>
        ELSE \E n \in 0..sz :
             /\ st_size' = sz
             /\ Acquire("plist_entire")
             /\ entire_alloc' = sz + 1
             /\ read_size' = n
             /\ plist_entire' = Store(Run(0, n - 1), n, NUL)
             /\ last_store' = [idx |-> n, alloc |-> sz + 1]
             /\ pc' = "convert"
             /\ UNCHANGED <<ret, rel>>
    /\ UNCHANGED <<envVars, options, usage_printed, version_printed,
                   read_capacity, stdin_pos, read_end, convVars, outVars>>

(***************************************************************************)
(* lines 253-284: the conversion dispatch, then plist_free(root_node) and  *)
(* free(plist_entire).                                                     *)
(***************************************************************************)
\* a mutation of ParseOp: the format-agnostic parser is used in every mode
ParseOp_always_from_memory(out_fmt, is_bin) == "plist_from_memory"

\* the parse operation called for options->out_fmt and the sniff result
ParseOp(out_fmt, is_bin) ==
    IF out_fmt = 0
    THEN IF is_bin THEN "plist_from_bin" ELSE "plist_from_xml"
    ELSE "plist_from_memory"

\* a mutation of SerializeAttempted: the serializer runs after a failed parse too
SerializeAttempted_always(ires) == TRUE

\* if (input_res == PLIST_ERR_SUCCESS), lines 258, 265, 273
SerializeAttempted(ires) == ires = PLIST_ERR_SUCCESS

\* the serialize operation called once the parse has succeeded
SerializeOp(out_fmt, is_bin) ==
    IF out_fmt = 0
    THEN IF is_bin THEN "plist_to_xml" ELSE "plist_to_bin"
    ELSE IF out_fmt = 1 THEN "plist_to_bin"
    ELSE IF out_fmt = 2 THEN "plist_to_xml"
    ELSE IF out_fmt = 3 THEN "plist_to_json"
    ELSE "none"

\* What a library call may hand back: a result code and its out-parameter.
\* On success the out-parameter holds the object; on failure the library
\* decides what it leaves there.
ParseResults ==
    {r \in [res : PlistErr, node : {NULL, "node"}] :
        r.res = PLIST_ERR_SUCCESS => r.node = "node"}
SerializeResults ==
    {r \in [res : PlistErr, buf : {NULL, "buf"}, len : 0..MaxOutSize] :
        /\ r.res = PLIST_ERR_SUCCESS => r.buf = "buf"
        /\ r.buf = NULL => r.len = 0}

Main_Convert ==
    /\ pc = "convert"
    /\ \E is_bin \in BOOLEAN, p \in ParseResults, s \in SerializeResults :
        LET auto == options.out_fmt = 0
            sop == IF SerializeAttempted(p.res)
                   THEN SerializeOp(options.out_fmt, is_bin) ELSE "none"
        IN  /\ auto \/ is_bin
            /\ sniffed' = IF auto THEN (IF is_bin THEN "binary" ELSE "not_binary")
                          ELSE sniffed
            /\ input_res' = p.res
            /\ root_node' = p.node
            /\ IF sop # "none"
               THEN /\ output_res' = s.res
                    /\ plist_out' = s.buf
                    /\ size' = s.len
               ELSE UNCHANGED <<output_res, plist_out, size>>
            /\ calls' = calls \o (IF auto THEN <<"plist_is_binary">> ELSE <<>>)
                              \o <<ParseOp(options.out_fmt, is_bin)>>
                              \o (IF sop # "none" THEN <<sop>> ELSE <<>>)
            /\ acq' = [acq EXCEPT
                         !["root_node"] = IF p.node # NULL THEN @ + 1 ELSE @,
                         !["plist_out"] = IF sop # "none" /\ s.buf # NULL
                                          THEN @ + 1 ELSE @]
            \* plist_free(root_node); free(plist_entire);
            /\ rel' = [rel EXCEPT
                         !["root_node"] = IF p.node # NULL THEN @ + 1 ELSE @,
                         !["plist_entire"] = @ + 1]
    /\ plist_entire' = <<>>
    /\ entire_alloc' = 0
    /\ pc' = "write"
    /\ reached' = reached \cup {"dispatcher"}
    /\ UNCHANGED <<envVars, options, ret, usage_printed, version_printed,
                   read_size, read_capacity, stdin_pos, read_end, last_store,
                   in_io, st_size, outVars>>

(***************************************************************************)
(* lines 286-304: the output writer.                                       *)
(***************************************************************************)
\* a mutation of OutputWriter: a failed fopen is reported but main goes on
OutputWriter_open_failure_goes_on(po, out_file, opened) ==
    IF po = NULL THEN [dest |-> "none", returns |-> FALSE, frees |-> FALSE]
    ELSE IF out_file # NULL /\ ~StrEq(out_file, "-")
    THEN IF ~opened
         THEN [dest |-> "open_failed", returns |-> FALSE, frees |-> FALSE]
         ELSE [dest |-> "file", returns |-> FALSE, frees |-> TRUE]
    ELSE [dest |-> "stdout", returns |-> FALSE, frees |-> TRUE]

\* what the writer does for plist_out, options->out_file and the result of
\* fopen(out_file, "wb"): where it writes, whether main returns 1 at once,
\* whether plist_out is freed
OutputWriter(po, out_file, opened) ==
    IF po = NULL THEN [dest |-> "none", returns |-> FALSE, frees |-> FALSE]
    ELSE IF out_file # NULL /\ ~StrEq(out_file, "-")
    THEN IF ~opened
         THEN [dest |-> "open_failed", returns |-> TRUE, frees |-> FALSE]
         ELSE [dest |-> "file", returns |-> FALSE, frees |-> TRUE]
    ELSE [dest |-> "stdout", returns |-> FALSE, frees |-> TRUE]

Main_WriteOutput ==
    /\ pc = "write"
    /\ \E opened \in BOOLEAN :
        LET w == OutputWriter(plist_out, options.out_file, opened)
        IN  /\ out_dest' = w.dest
            /\ out_bytes' = IF w.dest \in {"file", "stdout"} THEN size ELSE 0
            /\ IF w.frees THEN Release("plist_out") ELSE UNCHANGED rel
            /\ IF w.returns
               THEN ret' = 1 /\ pc' = "done"
               ELSE UNCHANGED ret /\ pc' = "translate"
    /\ reached' = reached \cup {"writer"}
    /\ UNCHANGED <<envVars, options, usage_printed, version_printed, inVars,
                   convVars, acq>>

(***************************************************************************)
(* lines 306-324: the exit status.                                         *)
(***************************************************************************)
\* a mutation of ExitCode: a format mismatch is reported as a plain failure
ExitCode_format_as_failure(r, ires, ores) ==
    IF ires = PLIST_ERR_SUCCESS
    THEN IF ores = PLIST_ERR_SUCCESS THEN r ELSE 1
    ELSE 1

\* ret after the if/switch, r being ret before it
ExitCode(r, ires, ores) ==
    IF ires = PLIST_ERR_SUCCESS
    THEN IF ores = PLIST_ERR_SUCCESS THEN r
         ELSE IF ores = PLIST_ERR_FORMAT THEN 2
         ELSE 1
    ELSE 1

Main_Translate ==
    /\ pc = "translate"
    /\ ret' = ExitCode(ret, input_res, output_res)
    /\ pc' = "done"
    /\ reached' = reached \cup {"translator"}
    /\ UNCHANGED <<envVars, options, usage_printed, version_printed, inVars,
                   convVars, outVars, resVars>>

Next ==
    \/ Main_ParseArguments
    \/ Main_StdinAlloc
    \/ Main_StdinRead(MaxStdinLen)
    \/ Main_StdinFinish
    \/ Main_ReadFile
    \/ Main_Convert
    \/ Main_WriteOutput
    \/ Main_Translate

Spec == Init /\ [][Next]_vars

(***************************************************************************)
(* The standard-input branch alone, on streams long enough to make the     *)
(* buffer grow.                                                            *)
(***************************************************************************)
LongStdinLen == MaxGrowths * CapacityStep + 1

InitStdin ==
    /\ argv = <<"plistutil">>
    /\ MainLocals

NextStdin ==
    \/ Main_ParseArguments
    \/ Main_StdinAlloc
    \/ Main_StdinRead(LongStdinLen)
    \/ Main_StdinFinish

SpecStdin == InitStdin /\ [][NextStdin]_vars

\* the status the parent process sees: the low eight bits of ret
ExitStatus == ret % 256

(***************************************************************************)
(* Vocabulary of the properties.                                           *)
(***************************************************************************)
ParseOps == {"plist_from_bin", "plist_from_xml", "plist_from_memory"}
SerializeOps == {"plist_to_bin", "plist_to_xml", "plist_to_json"}
IsParseOp(c) == c \in ParseOps
IsSerializeOp(c) == c \in SerializeOps
ParseCalls == SelectSeq(calls, IsParseOp)
SerializeCalls == SelectSeq(calls, IsSerializeOp)
NoParseInvoked == \A k \in 1..Len(calls) : calls[k] \notin ParseOps \cup {"plist_is_binary"}

\* the exit status the Outcome Translator's table gives (InputResult, OutputResult)
StatusTable(ires, ores) ==
    CASE ires # PLIST_ERR_SUCCESS -> 1
      [] ires = PLIST_ERR_SUCCESS /\ ores = PLIST_ERR_SUCCESS -> 0
      [] ires = PLIST_ERR_SUCCESS /\ ores = PLIST_ERR_FORMAT -> 2
      [] OTHER -> 1

\* the whole input is known to be shorter than 8 bytes: standard input ended
\* before its 8th byte, or the named file's size is below 8
InputTooShort ==
    \/ read_end = "eof" /\ stdin_pos < MinPlistSize
    \/ st_size >= 0 /\ st_size < MinPlistSize

(***************************************************************************)
(* C1.  For every input shorter than 8 bytes, from a named file or from    *)
(* standard input, the run ends with exit status 1 and no parse operation  *)
(* has been invoked.                                                       *)
(* Fails: the named-file branch returns -1 (status 255), line 244.         *)
(***************************************************************************)
C1_UndersizedInputExitsOne ==
    (pc = "done" /\ InputTooShort) => (ExitStatus = 1 /\ NoParseInvoked)

(***************************************************************************)
(* C2.  For every run that reaches the Outcome Translator the exit status  *)
(* is the table's function of (InputResult, OutputResult): parse failure   *)
(* 1; success/success 0; success/format mismatch 2; success/anything else  *)
(* (the not-attempted sentinel included) 1.  No other value is produced.   *)
(***************************************************************************)
C2_ExitStatusIsTable ==
    "translator" \in reached =>
        /\ pc = "done"
        /\ ExitStatus = StatusTable(input_res, output_res)
        /\ ExitStatus \in {0, 1, 2}

C2_Witness ==
    /\ "translator" \in reached
    /\ input_res = PLIST_ERR_SUCCESS
    /\ output_res = PLIST_ERR_FORMAT
    /\ ExitStatus = 2

(***************************************************************************)
(* C3.  Bytes are written to the output destination (stdout or the -o      *)
(* file, which is created or truncated) only if InputResult = Success and  *)
(* OutputResult = Success, whatever the serialize operation left in its    *)
(* output buffer pointer.                                                  *)
(* Fails: the writer is gated on plist_out, not on the result codes (line  *)
(* 286); a serializer that fails and leaves a buffer gets it written.      *)
(***************************************************************************)
C3_OutputOnlyOnFullSuccess ==
    out_dest \in {"stdout", "file"} =>
        (input_res = PLIST_ERR_SUCCESS /\ output_res = PLIST_ERR_SUCCESS)

(***************************************************************************)
(* C4, as claimed.  For every run that reached the Conversion Dispatcher   *)
(* the exit status is determined by (InputResult, OutputResult) alone,     *)
(* whether or not the -o file could be opened.  By C2 the runs that reach  *)
(* the translator realise StatusTable, so "determined by the pair" means   *)
(* every finished run has that status.                                     *)
(* Fails: a failed fopen of the -o file returns 1 at once (line 294), also *)
(* when the pair is (Success, Success).                                    *)
(***************************************************************************)
C4_ExitStatusFromOutcomeAlone ==
    (pc = "done" /\ "dispatcher" \in reached) =>
        ExitStatus = StatusTable(input_res, output_res)

(***************************************************************************)
(* C4, amended.  A run that reached the Conversion Dispatcher ends with    *)
(* exit status 1 if the Output Writer failed to open the -o file, and with *)
(* the table's status for (InputResult, OutputResult) otherwise; the       *)
(* Output Writer never changes InputResult or OutputResult.                *)
(***************************************************************************)
C4_ExitStatusOutcomeOrOpenFailure ==
    /\ [](  (pc = "done" /\ "dispatcher" \in reached) =>
                ExitStatus = IF out_dest = "open_failed" THEN 1
                             ELSE StatusTable(input_res, output_res))
    /\ [][pc = "write" => UNCHANGED <<input_res, output_res>>]_vars

C4_Witness ==
    /\ pc = "done"
    /\ out_dest = "open_failed"
    /\ input_res = PLIST_ERR_SUCCESS
    /\ output_res = PLIST_ERR_SUCCESS
    /\ ExitStatus = 1

(***************************************************************************)
(* C5.  On every exit path of main after argument parsing, each of the     *)
(* input buffer plist_entire, the parsed document root_node and the output *)
(* buffer plist_out that was acquired has been released exactly once.      *)
(* Fails: the output-open failure path returns without free(plist_out)     *)
(* (lines 291-295).                                                        *)
(***************************************************************************)
C5_AcquiredReleasedOnce ==
    /\ \A r \in Resources : rel[r] <= acq[r]
    /\ (pc = "done" /\ "acquirer" \in reached) =>
            \A r \in Resources : rel[r] = acq[r]

(***************************************************************************)
(* C6, as claimed.  In every run that reaches the Conversion Dispatcher    *)
(* exactly one serialize operation is invoked, for every parse outcome.    *)
(* Fails: after a failed parse no serialize operation is invoked.          *)
(***************************************************************************)
C6_ExactlyOneSerialize ==
    "dispatcher" \in reached => Len(SerializeCalls) = 1

(***************************************************************************)
(* C6, amended.  In every run that reaches the Conversion Dispatcher,      *)
(* exactly one serialize operation is invoked if the parse returned        *)
(* Success and none if it did not; never more than one.                    *)
(***************************************************************************)
C6_OneSerializeIffParsed ==
    /\ Len(SerializeCalls) <= 1
    /\ "dispatcher" \in reached =>
            Len(SerializeCalls) = IF input_res = PLIST_ERR_SUCCESS THEN 1 ELSE 0
    /\ "dispatcher" \notin reached => calls = <<>>

C6_Witness ==
    /\ "dispatcher" \in reached
    /\ input_res # PLIST_ERR_SUCCESS
    /\ Len(ParseCalls) = 1
    /\ SerializeCalls = <<>>

(***************************************************************************)
(* C7.  The parse operation, and the serialize operation after a           *)
(* successful parse, follow the selector and the sniff: Auto and binary    *)
(* gives (from_bin, to_xml); Auto and not binary (from_xml, to_bin);       *)
(* forced bin/xml/json (from_memory, to_bin/to_xml/to_json).  The sniff is *)
(* invoked only when the selector is Auto, and after a failed parse no     *)
(* serialize operation is invoked and OutputResult keeps its not-attempted *)
(* value.                                                                  *)
(***************************************************************************)
C7_Expected(fmt, sn) ==
    CASE fmt = 0 /\ sn = "binary" -> <<"plist_from_bin", "plist_to_xml">>
      [] fmt = 0 /\ sn = "not_binary" -> <<"plist_from_xml", "plist_to_bin">>
      [] fmt = 1 -> <<"plist_from_memory", "plist_to_bin">>
      [] fmt = 2 -> <<"plist_from_memory", "plist_to_xml">>
      [] fmt = 3 -> <<"plist_from_memory", "plist_to_json">>
      [] OTHER -> <<"none", "none">>

C7_DispatchTable ==
    "dispatcher" \in reached =>
        LET e == C7_Expected(options.out_fmt, sniffed)
            sniffs == SelectSeq(calls, LAMBDA c : c = "plist_is_binary")
        IN  /\ ParseCalls = <<e[1]>>
            /\ input_res = PLIST_ERR_SUCCESS => SerializeCalls = <<e[2]>>
            /\ input_res # PLIST_ERR_SUCCESS =>
                    (SerializeCalls = <<>> /\ output_res = PLIST_ERR_UNKNOWN)
            /\ Len(sniffs) = IF options.out_fmt = 0 THEN 1 ELSE 0
            /\ (sniffed = "not_called") = (options.out_fmt # 0)

C7_Witness ==
    /\ "dispatcher" \in reached
    /\ options.out_fmt = 0
    /\ sniffed = "not_binary"
    /\ calls = <<"plist_is_binary", "plist_from_xml", "plist_to_bin">>

(***************************************************************************)
(* C8.  If a read call on standard input reports an error, the run fails   *)
(* with exit status 1 and no parse operation is invoked, however many      *)
(* bytes had been read before the error.                                   *)
(* Fails: the loop ends on read() <= 0 and ferror(stdin) is clear, so      *)
(* after 8 or more bytes the error is taken for the end of the stream.     *)
(***************************************************************************)
C8_ReadErrorFails ==
    read_end = "error" =>
        /\ NoParseInvoked
        /\ pc = "done" => ExitStatus = 1

(***************************************************************************)
(* C9.  When the arguments, scanned left to right, hold an unrecognized    *)
(* -f value, an unrecognized flag, -h/--help, or -i/-o/-f as last argument *)
(* without a value, and no -v/--version before it, the tool prints usage   *)
(* and exits 0; no input is read, no parse or serialize operation invoked. *)
(***************************************************************************)
C9_FormatNames == {"bin", "xml", "json"}
C9_Recognized(v) == \E k \in 0..Len(v) : SubSeq(v, 1, k) \in C9_FormatNames

\* what stops the scan first from argument i on: "usage", "version", or
\* "none" when the scan reaches the end
RECURSIVE C9_FirstStop(_, _)
C9_FirstStop(a, i) ==
    IF i >= Len(a) THEN "none"
    ELSE LET t == Arg(a, i)
             last == (i + 1 = Len(a))
         IN  CASE t \in {"-h", "--help"} -> "usage"
               [] t \in {"-v", "--version"} -> "version"
               [] t \in {"-d", "--debug"} -> C9_FirstStop(a, i + 1)
               [] t \in {"-i", "--infile", "-o", "--outfile"} ->
                    IF last THEN "usage" ELSE C9_FirstStop(a, i + 2)
               [] t \in {"-f", "--format"} ->
                    IF last \/ ~C9_Recognized(Arg(a, i + 1)) THEN "usage"
                    ELSE C9_FirstStop(a, i + 2)
               [] OTHER -> "usage"

C9_MalformedInvocationPrintsUsage ==
    (pc # "start" /\ C9_FirstStop(argv, 1) = "usage") =>
        /\ pc = "done"
        /\ usage_printed
        /\ ~version_printed
        /\ ExitStatus = 0
        /\ ~in_io
        /\ calls = <<>>
        /\ reached = {}

C9_Witness ==
    /\ pc = "done"
    /\ argv = <<"plistutil", "-f", "txt">>
    /\ usage_printed
    /\ ExitStatus = 0

(***************************************************************************)
(* C10.  In the standard-input read loop, at every step: the capacity      *)
(* starts at 4096 and only ever grows by exactly 4096, and only when the   *)
(* byte count equals the capacity; 0 <= read_size <= capacity; every store *)
(* into the buffer, the terminating null byte included, is at an index     *)
(* below the allocated size; and buffer[0..read_size) is the bytes         *)
(* consumed from the stream, in order.                                     *)
(***************************************************************************)
C10_State ==
    /\ read_capacity >= InitialCapacity
    /\ (read_capacity - InitialCapacity) % CapacityStep = 0
    /\ pc = "start" => read_capacity = InitialCapacity
    /\ 0 <= read_size /\ read_size <= read_capacity
    /\ last_store.idx < last_store.alloc
    /\ pc \in {"stdin_loop", "stdin_end", "convert"} =>
        /\ read_size = stdin_pos
        /\ TakeCells(plist_entire, read_size) = Run(0, stdin_pos - 1)
    /\ pc = "convert" =>
        /\ last_store.idx = read_size
        /\ DropCells(plist_entire, read_size) = Run(NUL, NUL)

C10_Growth ==
    read_capacity' # read_capacity =>
        /\ read_capacity' = read_capacity + CapacityStep
        /\ read_size = read_capacity

C10_StdinBufferLoop == []C10_State /\ [][C10_Growth]_vars

C10_Witness ==
    /\ pc = "convert"
    /\ read_capacity = InitialCapacity + CapacityStep
    /\ read_size = read_capacity
    /\ entire_alloc = read_capacity + 1
    /\ read_end = "eof"

====
